---------------------------- MODULE Spec2Model ----------------------------
(***************************************************************************)
(* A model of the animeface GAN training utilities:                        *)
(*   - load_real's size pyramid        (implementations/SinGAN/utils.py)   *)
(*   - the SinGAN progressive train    (implementations/SinGAN/utils.py)   *)
(*   - the cGAN train loop             (implementations/cGAN/utils.py)     *)
(*   - the adversarial loss strategies (implementations/gan_utils/losses.py)*)
(* Each part has its own specification (SpecPyramid, Spec, SpecLoss); the  *)
(* variables of the other parts stay unchanged under it.                   *)
(***************************************************************************)
EXTENDS Integers, Sequences, FiniteSets, TLC

VARIABLES
    \* ---- load_real -------------------------------------------------------
    lr_pc,          \* position in load_real
    max_size,       \* argument max_size (int)
    min_size,       \* argument min_size (int)
    scale_factor,   \* argument scale_factor, a rational <<numerator, 4>>
    sizes,          \* the local list sizes
    tmp_size,       \* the local tmp_size
    image,          \* "unopened" | "opened": Image.open(image_path)
    lr_reals,       \* the local list reals, each image standing as its size
    \* ---- train: arguments -----------------------------------------------
    prog,           \* which train runs: "SinGAN" | "cGAN" | "none"
    gp_type,        \* "one" | "zero" | "other" (any other string)
    epochses,       \* SinGAN: epochs of each scale; cGAN: <<epochs>>
    G_step,         \* generator steps per epoch
    D_step,         \* discriminator steps per epoch
    reals,          \* SinGAN: the real image of each scale, as its size
    test,           \* TRUE iff a test target is passed
    save_interval,
    verbose_interval,
    cuda,           \* torch.cuda.is_available()
    \* ---- train: locals and the two models -------------------------------
    pc,             \* position in train
    out_func,       \* "unset" | "empty" | "softplus"
    scale,          \* index of the scale being trained (0-based)
    epoch,          \* the loop variable epoch
    j,              \* the loop variable j (cGAN: index)
    optimizer_G,    \* the model whose parameters optimizer_G holds, or "none"
    optimizer_D,    \* the model whose parameters optimizer_D holds, or "none"
    params,         \* [G, D]: number of updates applied to the parameters
    grads,          \* [G, D]: the losses whose gradients the .grad buffers hold:
                    \* "cur" the loss of the step in progress, "old" an earlier one
    progressed,     \* [G, D]: number of progress() calls
    D_loss,         \* the locals D_loss, G_loss, fake, rec_fake: "unbound", or
    G_loss,         \* <<scale, epoch>> of the assignment
    fake,
    rec_fake,
    \* ---- train: history --------------------------------------------------
    step_of,        \* the model of the latest optimisation step, or "none"
    ops,            \* the operations of that step so far
    steps_done,     \* [G, D]: optimisation steps completed in the current epoch
    forwards,       \* number of forward passes made
    entered,        \* the scale indices entered, in order
    epochsRun,      \* the epochs run in each entered scale
    real_in,        \* the real image of the latest forward pass, or 0
    boundary,       \* the calls made at the scale boundary in progress
    last_read,      \* the latest use of D_loss, G_loss, fake or rec_fake
    evaluated,      \* TRUE iff the evaluation of lines 178-180 has run
    \* ---- gan_utils/losses.py ------------------------------------------------
    l_pc,           \* "idle" | "calling"
    l_class,        \* the AdversarialLoss subclass of the object
    l_backward,     \* self.backward
    l_return_all,   \* self.return_all
    l_fake,         \* the fake_prob arguments of the calls: scalars, in halves
    l_real,         \* the real_prob argument of d_loss: a scalar, in halves
    l_out,          \* the values g_loss returned so far, rationals <<numerator, denominator>>
    l_dout,         \* what d_loss returned: <<>> before the call, then a tuple of rationals
    l_backwards,    \* number of .backward() calls made by the loss object
    \* ---- gan_utils/losses.py: GradPenalty --------------------------------
    p_pc,           \* position in the method called, "ready" between calls
    p_backward,     \* self.backward
    p_method,       \* the method of the latest call, or "none"
    center,         \* the parameter center of the call: <<c>>, c in halves; <<>>
                    \* when the method has no such parameter or no call is on
    p_calls,        \* number of calls that have returned
    p_forwards,     \* number of forward passes of D made: D(x_hat)
    p_grads,        \* number of gradient computations made: _calc_grad
    p_backwards,    \* number of penalty.backward() calls made
    penalty,        \* the value returned by the latest call: <<>>, or <<c>> for the
                    \* mean squared deviation of the gradient norm from c/2
    p_error         \* the exception that has left the call, or "none"

pyrVars == <<lr_pc, max_size, min_size, scale_factor, sizes, tmp_size, image, lr_reals>>

argVars == <<prog, gp_type, epochses, G_step, D_step, reals, test, save_interval,
             verbose_interval, cuda>>

trainVars == <<pc, out_func, scale, epoch, j, optimizer_G, optimizer_D, params, grads,
               progressed, D_loss, G_loss, fake, rec_fake, step_of, ops, steps_done, forwards,
               entered, epochsRun, real_in, boundary, last_read, evaluated>>

lossVars == <<l_pc, l_class, l_backward, l_return_all, l_fake, l_real, l_out, l_dout,
              l_backwards>>

penVars == <<p_pc, p_backward, p_method, center, p_calls, p_forwards, p_grads,
             p_backwards, penalty, p_error>>

vars == <<pyrVars, argVars, trainVars, lossVars, penVars>>

(***************************************************************************)
(* Bounds of the model.                                                    *)
(***************************************************************************)
\* max_size and min_size range over -1..MaxSize
MaxSize == 6
\* the size loop is followed for at most MaxIter appended sizes
MaxIter == 12
\* train: --epochs ranges over 0..MaxEpochs, --increase over 0..MaxIncrease
MaxEpochs == 1
MaxIncrease == 1
\* train: --D-step ranges over 0..MaxDStep, --G-step over 0..MaxGStep
MaxDStep == 2
MaxGStep == 2
\* train: save_interval and verbose_interval range over 1..MaxInterval
MaxInterval == 2
\* train: --max-size ranges over 1..MaxTrainSize
MaxTrainSize == 3
\* cGAN train: the dataset has 0..MaxBatches batches
MaxBatches == 2
\* losses: a score ranges over the halves -MaxScore2/2 .. MaxScore2/2
MaxScore2 == 6
\* GradPenalty: the centers passed run over -1/2 .. MaxCenter2/2, in at most
\* MaxCalls calls on one object
MaxCenter2 == 3
MaxCalls == 3

(***************************************************************************)
(* Arithmetic of load_real.  scale_factor is a float in the code; the     *)
(* model takes the floats n/4, which binary floating point represents     *)
(* exactly, as are their powers and the products with max_size in the     *)
(* modelled range, so that max_size * scale_factor ** k is the exact      *)
(* rational max_size * n^k / 4^k the operators below compute.             *)
(***************************************************************************)
RECURSIVE Pow(_, _)
\* b ** e for an int exponent e >= 0 (Python: 0 ** 0 = 1)
Pow(b, e) == IF e = 0 THEN 1 ELSE b * Pow(b, e - 1)

\* floor(p / q) for q > 0
FloorDiv(p, q) == IF p >= 0 THEN p \div q ELSE -((-p + q - 1) \div q)

\* a plausible slip: int() truncation instead of round()
RoundTruncate(p, q) == IF p >= 0 THEN p \div q ELSE -((-p) \div q)

\* Python 3 round(x) of the float x = p / q, q > 0: to the nearest int, a tie
\* to the even one
Round(p, q) ==
    LET f == FloorDiv(p, q)
        r == p - f * q
    IN  IF 2 * r < q THEN f
        ELSE IF 2 * r > q THEN f + 1
        ELSE IF f % 2 = 0 THEN f ELSE f + 1

\* round(max_size * scale_factor ** k), line 21
ScaledSize(mx, sf, k) == Round(mx * Pow(sf[1], k), Pow(sf[2], k))

\* a plausible slip: the list is left in the order of the loop (descending)
Unsorted(s) == s

\* sorted(sizes), line 23
Sorted(s) == SortSeq(s, LAMBDA a, b : a < b)

NonDecreasing(s) == \A i \in 1 .. Len(s) - 1 : s[i] <= s[i + 1]

StrictlyIncreasing(s) == \A i \in 1 .. Len(s) - 1 : s[i] < s[i + 1]

\* a plausible slip: the loop also goes on at tmp_size = min_size
LoopConditionGe(t, mn) == t >= mn

\* while tmp_size > min_size, line 20
LoopCondition(t, mn) == t > mn

\* 0 < scale_factor < 1
InUnitInterval(sf) == 0 < sf[1] /\ sf[1] < sf[2]

\* the scale factors n/4 of the model: -1/4, 0, 1/4, 1/2, 3/4, 1, 5/4
ScaleFactors == {<<n, 4>> : n \in -1 .. 5}

\* the arguments load_real is called with: every (max_size, min_size,
\* scale_factor) of the bounded ranges, and the documented scenario
\* max_size=100, min_size=25, scale_factor=0.75
PyramidArgs ==
    {<<mx, mn, sf>> : mx \in -1 .. MaxSize, mn \in -1 .. MaxSize, sf \in ScaleFactors}
        \cup {<<100, 25, <<3, 4>>>>}

RECURSIVE SizeLoop(_, _, _, _, _)
\* the while loop of lines 20-22 from the list s and tmp_size t
SizeLoop(s, t, mx, mn, sf) ==
    IF LoopCondition(t, mn) /\ Len(s) < MaxIter
    THEN LET t2 == ScaledSize(mx, sf, Len(s))
         IN  SizeLoop(Append(s, t2), t2, mx, mn, sf)
    ELSE s

\* the sizes of load_real(max_size=mx, min_size=mn, scale_factor=sf), lines 18-23
LoadRealSizes(mx, mn, sf) == Sorted(SizeLoop(<<>>, mx, mx, mn, sf))

\* no train is running
TrainIdle ==
    /\ prog = "none" /\ gp_type = "one" /\ epochses = <<>> /\ G_step = 0 /\ D_step = 0
    /\ reals = <<>> /\ test = FALSE /\ save_interval = 1 /\ verbose_interval = 1
    /\ cuda = FALSE
    /\ pc = "idle" /\ out_func = "unset" /\ scale = 0 /\ epoch = 0 /\ j = 0
    /\ optimizer_G = "none" /\ optimizer_D = "none"
    /\ params = [m \in {"G", "D"} |-> 0]
    /\ grads = [m \in {"G", "D"} |-> {}]
    /\ progressed = [m \in {"G", "D"} |-> 0]
    /\ D_loss = "unbound" /\ G_loss = "unbound" /\ fake = "unbound" /\ rec_fake = "unbound"
    /\ step_of = "none" /\ ops = <<>> /\ steps_done = [m \in {"G", "D"} |-> 0]
    /\ forwards = 0 /\ entered = <<>>
    /\ epochsRun = <<>> /\ real_in = 0 /\ boundary = <<>> /\ last_read = <<>>
    /\ evaluated = FALSE

\* no loss object is in use
LossIdle ==
    /\ l_pc = "idle" /\ l_class = "none" /\ l_backward = FALSE /\ l_return_all = FALSE
    /\ l_fake = <<>> /\ l_real = 0 /\ l_out = <<>> /\ l_dout = <<>> /\ l_backwards = 0

\* no GradPenalty object is in use
PenaltyIdle ==
    /\ p_pc = "idle" /\ p_backward = FALSE /\ p_method = "none" /\ center = <<>>
    /\ p_calls = 0 /\ p_forwards = 0 /\ p_grads = 0 /\ p_backwards = 0
    /\ penalty = <<>> /\ p_error = "none"

\* load_real is not running
PyramidIdle ==
    /\ lr_pc = "idle" /\ max_size = 0 /\ min_size = 0 /\ scale_factor = <<3, 4>>
    /\ sizes = <<>> /\ tmp_size = 0 /\ image = "unopened" /\ lr_reals = <<>>

(***************************************************************************)
(* load_real, lines 13-50                                                  *)
(***************************************************************************)
PyramidInit ==
    /\ \E a \in PyramidArgs :
          /\ max_size = a[1]
          /\ min_size = a[2]
          /\ scale_factor = a[3]
    /\ sizes = <<>>             \* line 18
    /\ tmp_size = max_size      \* line 19
    /\ lr_pc = "loop"
    /\ image = "unopened"
    /\ lr_reals = <<>>
    /\ TrainIdle
    /\ LossIdle
    /\ PenaltyIdle

\* one iteration of the while loop, lines 20-22
SizeLoopStep ==
    /\ lr_pc = "loop"
    /\ LoopCondition(tmp_size, min_size)
    /\ Len(sizes) < MaxIter
    /\ tmp_size' = ScaledSize(max_size, scale_factor, Len(sizes))
    /\ sizes' = Append(sizes, tmp_size')
    /\ UNCHANGED <<lr_pc, max_size, min_size, scale_factor, image, lr_reals, argVars, trainVars, lossVars, penVars>>

\* the loop has appended MaxIter sizes and its condition still holds: the
\* model follows it no further.  In the program the loop goes on, until
\* scale_factor ** len(sizes) overflows (|scale_factor| > 1, OverflowError) or
\* the list exhausts the memory; it never reaches line 23.
SizeLoopDiverge ==
    /\ lr_pc = "loop"
    /\ LoopCondition(tmp_size, min_size)
    /\ Len(sizes) >= MaxIter
    /\ lr_pc' = "diverged"
    /\ UNCHANGED <<max_size, min_size, scale_factor, sizes, tmp_size, image, lr_reals, argVars, trainVars, lossVars, penVars>>

\* the loop condition fails; sizes = sorted(sizes), line 23
SizeLoopExit ==
    /\ lr_pc = "loop"
    /\ ~LoopCondition(tmp_size, min_size)
    /\ sizes' = Sorted(sizes)
    /\ lr_pc' = "sized"
    /\ UNCHANGED <<max_size, min_size, scale_factor, tmp_size, image, lr_reals, argVars, trainVars, lossVars, penVars>>

\* image = Image.open(image_path).convert('RGB'), line 36
OpenImage ==
    /\ lr_pc = "sized"
    /\ image' = "opened"
    /\ lr_pc' = "transform"
    /\ UNCHANGED <<max_size, min_size, scale_factor, sizes, tmp_size, lr_reals, argVars, trainVars, lossVars, penVars>>

\* one iteration of for size in sizes, lines 37-48
TransformImage ==
    /\ lr_pc = "transform"
    /\ Len(lr_reals) < Len(sizes)
    /\ lr_reals' = Append(lr_reals, sizes[Len(lr_reals) + 1])
    /\ UNCHANGED <<lr_pc, max_size, min_size, scale_factor, sizes, tmp_size, image, argVars, trainVars, lossVars, penVars>>

\* return reals, xy_sizes, line 50
LoadRealReturn ==
    /\ lr_pc = "transform"
    /\ Len(lr_reals) = Len(sizes)
    /\ lr_pc' = "returned"
    /\ UNCHANGED <<max_size, min_size, scale_factor, sizes, tmp_size, image, lr_reals, argVars, trainVars, lossVars, penVars>>

PyramidNext ==
    \/ SizeLoopStep
    \/ SizeLoopDiverge
    \/ SizeLoopExit
    \/ OpenImage
    \/ TransformImage
    \/ LoadRealReturn

SpecPyramid == PyramidInit /\ [][PyramidNext]_vars

(***************************************************************************)
(* The two models and their optimizers, as train uses them.  A model's    *)
(* parameters and .grad buffers are followed by what is written to them:  *)
(* params counts the updates applied, grads names the losses whose        *)
(* gradients the buffers hold.                                             *)
(***************************************************************************)
Models == {"G", "D"}

\* the stamp of an assignment to a local of train
Stamp == <<scale, epoch>>

\* epochs + scale*increase for scale, _ in enumerate(sizes), line 243
Epochses(epochs, increase, n) == [s \in 1 .. n |-> epochs + (s - 1) * increase]

\* a plausible slip: optimizer_D built over G.parameters()
OptimizerDOverG == "G"

\* optim.Adam(G.parameters(), ...), line 116 (cGAN: line 99)
OptimizerGTarget == "G"

\* optim.Adam(D.parameters(), ...), line 117 (cGAN: line 100)
OptimizerDTarget == "D"

\* a new loss is computed: what the buffers hold is of an earlier step
Aged(g) ==
    [m \in Models |-> IF "cur" \in g[m] THEN (g[m] \ {"cur"}) \cup {"old"} ELSE g[m]]

\* a plausible slip: zero_grad() is left out, the buffers keep what they hold
ZeroGradLeftOut(g, target) == g

\* optimizer.zero_grad(): the buffers of the optimizer's model are cleared
ZeroGrad(g, target) == [g EXCEPT ![target] = {}]

\* loss.backward(): the gradient of the loss is added to the buffers of every
\* model its graph reaches
Backward(g, reached) ==
    [m \in Models |-> IF m \in reached THEN g[m] \cup {"cur"} ELSE g[m]]

\* optimizer.step(): the parameters of the optimizer's model are updated
OptStep(p, target) == [p EXCEPT ![target] = @ + 1]

\* the models the graph of D_loss reaches, lines 126-138: D through real_prob,
\* fake_prob (fake is detached) and gp; G through the interpolates of
\* calc_gradient_penalty_one, which take fake as it is
DLossReaches == IF gp_type = "one" THEN {"D", "G"} ELSE {"D"}

\* the models the graph of G_loss reaches, lines 150-157
GLossReaches == {"G", "D"}

\* the operations of one optimisation step, in the order of lines 141-143
StepOps == <<"forward", "zero_grad", "backward", "step">>

\* the arguments main passes to load_real for a train of the bounded model
TrainPyramids == {<<mx, 1, <<2, 4>>>> : mx \in 1 .. MaxTrainSize}

(***************************************************************************)
(* SinGAN train, lines 93-180, called as main does (lines 225-250) with   *)
(* gp_type and test over all of train's parameter values.                 *)
(***************************************************************************)
TrainInit ==
    /\ PyramidIdle
    /\ PenaltyIdle
    /\ LossIdle
    /\ prog = "SinGAN"
    /\ \E a \in TrainPyramids : reals = LoadRealSizes(a[1], a[2], a[3])
    /\ \E e \in 0 .. MaxEpochs, inc \in 0 .. MaxIncrease :
          epochses = Epochses(e, inc, Len(reals))
    /\ G_step \in 0 .. MaxGStep
    /\ D_step \in 0 .. MaxDStep
    /\ gp_type \in {"one", "zero", "other"}
    /\ test \in BOOLEAN
    /\ save_interval \in 1 .. MaxInterval
    /\ verbose_interval \in 1 .. MaxInterval
    /\ cuda \in BOOLEAN
    /\ pc = "entry" /\ out_func = "unset" /\ scale = 0 /\ epoch = 0 /\ j = 0
    /\ optimizer_G = "none" /\ optimizer_D = "none"
    /\ params = [m \in Models |-> 0]
    /\ grads = [m \in Models |-> {}]
    /\ progressed = [m \in Models |-> 0]
    /\ D_loss = "unbound" /\ G_loss = "unbound" /\ fake = "unbound" /\ rec_fake = "unbound"
    /\ step_of = "none" /\ ops = <<>> /\ steps_done = [m \in Models |-> 0]
    /\ forwards = 0 /\ entered = <<>>
    /\ epochsRun = <<>> /\ real_in = 0 /\ boundary = <<>> /\ last_read = <<>>
    /\ evaluated = FALSE

\* a plausible slip: no else branch, an unknown gp_type goes on into the loop
TrainEntryNoRaise ==
    /\ prog = "SinGAN" /\ pc = "entry"
    /\ out_func' = IF gp_type = "one" THEN "empty"
                   ELSE IF gp_type = "zero" THEN "softplus" ELSE "unset"
    /\ pc' = "scale_head"
    /\ UNCHANGED <<pyrVars, lossVars, penVars, argVars, scale, epoch, j, optimizer_G, optimizer_D,
                   params, grads, progressed, D_loss, G_loss, fake, rec_fake,
                   step_of, ops, steps_done, forwards, entered, epochsRun, real_in,
                   boundary, last_read, evaluated>>

\* the choice of out_func, lines 103-110
TrainEntry ==
    /\ prog = "SinGAN" /\ pc = "entry"
    /\ IF gp_type = "one" THEN out_func' = "empty" /\ pc' = "scale_head"
       ELSE IF gp_type = "zero" THEN out_func' = "softplus" /\ pc' = "scale_head"
       ELSE out_func' = out_func /\ pc' = "raised"
    /\ UNCHANGED <<pyrVars, lossVars, penVars, argVars, scale, epoch, j, optimizer_G, optimizer_D,
                   params, grads, progressed, D_loss, G_loss, fake, rec_fake,
                   step_of, ops, steps_done, forwards, entered, epochsRun, real_in,
                   boundary, last_read, evaluated>>

\* for scale, epochs in enumerate(epochses), and the optimizers, lines 112-117
ScaleHead ==
    /\ prog = "SinGAN" /\ pc = "scale_head"
    /\ IF scale < Len(epochses)
       THEN /\ entered' = Append(entered, scale)
            /\ epochsRun' = Append(epochsRun, 0)
            /\ optimizer_G' = OptimizerGTarget
            /\ optimizer_D' = OptimizerDTarget
            /\ epoch' = 0
            /\ boundary' = <<>>
            /\ pc' = "epoch_head"
       ELSE /\ pc' = "test"
            /\ UNCHANGED <<entered, epochsRun, optimizer_G, optimizer_D, epoch, boundary>>
    /\ UNCHANGED <<pyrVars, lossVars, penVars, argVars, out_func, scale, j, params, grads, progressed,
                   D_loss, G_loss, fake, rec_fake, step_of, ops, steps_done,
                   forwards, real_in, last_read, evaluated>>

\* for epoch in range(1, epochs+1), line 120
EpochHead ==
    /\ prog = "SinGAN" /\ pc = "epoch_head"
    /\ IF epoch < epochses[scale + 1]
       THEN /\ epoch' = epoch + 1
            /\ epochsRun' = [epochsRun EXCEPT ![Len(epochsRun)] = @ + 1]
            /\ steps_done' = [m \in Models |-> 0]
            /\ j' = 0
            /\ pc' = "D_head"
       ELSE /\ pc' = "boundary"
            /\ UNCHANGED <<epoch, epochsRun, steps_done, j>>
    /\ UNCHANGED <<pyrVars, lossVars, penVars, argVars, out_func, scale, optimizer_G, optimizer_D,
                   params, grads, progressed, D_loss, G_loss, fake, rec_fake,
                   step_of, ops, forwards, entered, real_in, boundary, last_read,
                   evaluated>>

\* a plausible slip: one discriminator step too many
DHeadOffByOne ==
    /\ prog = "SinGAN" /\ pc = "D_head"
    /\ IF j <= D_step
       THEN pc' = "D_forward" /\ j' = j
       ELSE pc' = "G_head" /\ j' = 0
    /\ UNCHANGED <<pyrVars, lossVars, penVars, argVars, out_func, scale, epoch, optimizer_G,
                   optimizer_D, params, grads, progressed, D_loss, G_loss, fake,
                   rec_fake, step_of, ops, steps_done, forwards, entered, epochsRun,
                   real_in, boundary, last_read, evaluated>>

\* for j in range(D_step), line 124
DHead ==
    /\ prog = "SinGAN" /\ pc = "D_head"
    /\ IF j < D_step
       THEN pc' = "D_forward" /\ j' = j
       ELSE pc' = "G_head" /\ j' = 0
    /\ UNCHANGED <<pyrVars, lossVars, penVars, argVars, out_func, scale, epoch, optimizer_G,
                   optimizer_D, params, grads, progressed, D_loss, G_loss, fake,
                   rec_fake, step_of, ops, steps_done, forwards, entered, epochsRun,
                   real_in, boundary, last_read, evaluated>>

\* the forward computation of D_loss, lines 126-138; gp is bound only for the
\* two known types
DForward ==
    /\ prog = "SinGAN" /\ pc = "D_forward"
    /\ real_in' = reals[scale + 1]
    /\ fake' = Stamp
    /\ forwards' = forwards + 1
    /\ IF gp_type \in {"zero", "one"}
       THEN /\ D_loss' = Stamp
            /\ step_of' = "D"
            /\ ops' = <<"forward">>
            /\ grads' = Aged(grads)
            /\ pc' = "D_zero"
       ELSE /\ pc' = "error"
            /\ UNCHANGED <<D_loss, step_of, ops, grads>>
    /\ UNCHANGED <<pyrVars, lossVars, penVars, argVars, out_func, scale, epoch, j, optimizer_G,
                   optimizer_D, params, progressed, G_loss, rec_fake, steps_done,
                   entered, epochsRun, boundary, last_read, evaluated>>

\* optimizer_D.zero_grad(), line 141
DZeroGrad ==
    /\ prog = "SinGAN" /\ pc = "D_zero"
    /\ grads' = ZeroGrad(grads, optimizer_D)
    /\ ops' = Append(ops, "zero_grad")
    /\ pc' = "D_backward"
    /\ UNCHANGED <<pyrVars, lossVars, penVars, argVars, out_func, scale, epoch, j, optimizer_G,
                   optimizer_D, params, progressed, D_loss, G_loss, fake, rec_fake,
                   step_of, steps_done, forwards, entered, epochsRun, real_in,
                   boundary, last_read, evaluated>>

\* D_loss.backward(retain_graph=True), line 142
DBackward ==
    /\ prog = "SinGAN" /\ pc = "D_backward"
    /\ grads' = Backward(grads, DLossReaches)
    /\ ops' = Append(ops, "backward")
    /\ pc' = "D_opt"
    /\ UNCHANGED <<pyrVars, lossVars, penVars, argVars, out_func, scale, epoch, j, optimizer_G,
                   optimizer_D, params, progressed, D_loss, G_loss, fake, rec_fake,
                   step_of, steps_done, forwards, entered, epochsRun, real_in,
                   boundary, last_read, evaluated>>

\* optimizer_D.step(), line 143, and the end of the loop body
DOptStep ==
    /\ prog = "SinGAN" /\ pc = "D_opt"
    /\ params' = OptStep(params, optimizer_D)
    /\ ops' = Append(ops, "step")
    /\ steps_done' = [steps_done EXCEPT !["D"] = @ + 1]
    /\ j' = j + 1
    /\ pc' = "D_head"
    /\ UNCHANGED <<pyrVars, lossVars, penVars, argVars, out_func, scale, epoch, optimizer_G,
                   optimizer_D, grads, progressed, D_loss, G_loss, fake, rec_fake,
                   step_of, forwards, entered, epochsRun, real_in, boundary,
                   last_read, evaluated>>

\* for j in range(G_step), line 148
GHead ==
    /\ prog = "SinGAN" /\ pc = "G_head"
    /\ IF j < G_step
       THEN pc' = "G_forward"
       ELSE pc' = "log"
    /\ UNCHANGED <<pyrVars, lossVars, penVars, argVars, out_func, scale, epoch, j, optimizer_G,
                   optimizer_D, params, grads, progressed, D_loss, G_loss, fake,
                   rec_fake, step_of, ops, steps_done, forwards, entered, epochsRun,
                   real_in, boundary, last_read, evaluated>>

\* the forward computation of G_loss, lines 150-157
GForward ==
    /\ prog = "SinGAN" /\ pc = "G_forward"
    /\ real_in' = reals[scale + 1]
    /\ fake' = Stamp
    /\ rec_fake' = Stamp
    /\ G_loss' = Stamp
    /\ forwards' = forwards + 1
    /\ step_of' = "G"
    /\ ops' = <<"forward">>
    /\ grads' = Aged(grads)
    /\ pc' = "G_zero"
    /\ UNCHANGED <<pyrVars, lossVars, penVars, argVars, out_func, scale, epoch, j, optimizer_G,
                   optimizer_D, params, progressed, D_loss, steps_done, entered,
                   epochsRun, boundary, last_read, evaluated>>

\* optimizer_G.zero_grad(), line 160
GZeroGrad ==
    /\ prog = "SinGAN" /\ pc = "G_zero"
    /\ grads' = ZeroGrad(grads, optimizer_G)
    /\ ops' = Append(ops, "zero_grad")
    /\ pc' = "G_backward"
    /\ UNCHANGED <<pyrVars, lossVars, penVars, argVars, out_func, scale, epoch, j, optimizer_G,
                   optimizer_D, params, progressed, D_loss, G_loss, fake, rec_fake,
                   step_of, steps_done, forwards, entered, epochsRun, real_in,
                   boundary, last_read, evaluated>>

\* G_loss.backward(retain_graph=True), line 161
GBackward ==
    /\ prog = "SinGAN" /\ pc = "G_backward"
    /\ grads' = Backward(grads, GLossReaches)
    /\ ops' = Append(ops, "backward")
    /\ pc' = "G_opt"
    /\ UNCHANGED <<pyrVars, lossVars, penVars, argVars, out_func, scale, epoch, j, optimizer_G,
                   optimizer_D, params, progressed, D_loss, G_loss, fake, rec_fake,
                   step_of, steps_done, forwards, entered, epochsRun, real_in,
                   boundary, last_read, evaluated>>

\* optimizer_G.step(), line 162, and the end of the loop body
GOptStep ==
    /\ prog = "SinGAN" /\ pc = "G_opt"
    /\ params' = OptStep(params, optimizer_G)
    /\ ops' = Append(ops, "step")
    /\ steps_done' = [steps_done EXCEPT !["G"] = @ + 1]
    /\ j' = j + 1
    /\ pc' = "G_head"
    /\ UNCHANGED <<pyrVars, lossVars, penVars, argVars, out_func, scale, epoch, optimizer_G,
                   optimizer_D, grads, progressed, D_loss, G_loss, fake, rec_fake,
                   step_of, forwards, entered, epochsRun, real_in, boundary,
                   last_read, evaluated>>

\* the progress log, lines 165-166: G_loss.item() and D_loss.item() are read;
\* a local that was never assigned raises UnboundLocalError
Log ==
    /\ prog = "SinGAN" /\ pc = "log"
    /\ IF epoch % verbose_interval = 0
       THEN IF G_loss = "unbound" \/ D_loss = "unbound"
            THEN pc' = "error" /\ last_read' = last_read
            ELSE pc' = "save" /\ last_read' = <<"log", <<G_loss, D_loss>>, Stamp>>
       ELSE pc' = "save" /\ last_read' = last_read
    /\ UNCHANGED <<pyrVars, lossVars, penVars, argVars, out_func, scale, epoch, j, optimizer_G,
                   optimizer_D, params, grads, progressed, D_loss, G_loss, fake,
                   rec_fake, step_of, ops, steps_done, forwards, entered, epochsRun,
                   real_in, boundary, evaluated>>

\* the sample image, lines 167-168: fake is read
Save ==
    /\ prog = "SinGAN" /\ pc = "save"
    /\ IF epoch % save_interval = 0
       THEN IF fake = "unbound"
            THEN pc' = "error" /\ last_read' = last_read
            ELSE pc' = "epoch_head" /\ last_read' = <<"save", <<fake>>, Stamp>>
       ELSE pc' = "epoch_head" /\ last_read' = last_read
    /\ UNCHANGED <<pyrVars, lossVars, penVars, argVars, out_func, scale, epoch, j, optimizer_G,
                   optimizer_D, params, grads, progressed, D_loss, G_loss, fake,
                   rec_fake, step_of, ops, steps_done, forwards, entered, epochsRun,
                   real_in, boundary, evaluated>>

\* if scale+1 < len(epochses), line 170, and the next turn of the scale loop
Boundary ==
    /\ prog = "SinGAN" /\ pc = "boundary"
    /\ IF scale + 1 < Len(epochses)
       THEN pc' = "G_progress" /\ scale' = scale
       ELSE pc' = "scale_head" /\ scale' = scale + 1
    /\ UNCHANGED <<pyrVars, lossVars, penVars, argVars, out_func, epoch, j, optimizer_G, optimizer_D,
                   params, grads, progressed, D_loss, G_loss, fake, rec_fake,
                   step_of, ops, steps_done, forwards, entered, epochsRun, real_in,
                   boundary, last_read, evaluated>>

\* G.progress(rec_fake, reals[scale]), line 171: rec_fake is read
GProgress ==
    /\ prog = "SinGAN" /\ pc = "G_progress"
    /\ IF rec_fake = "unbound"
       THEN /\ pc' = "error"
            /\ UNCHANGED <<progressed, boundary, last_read>>
       ELSE /\ progressed' = [progressed EXCEPT !["G"] = @ + 1]
            /\ boundary' = Append(boundary, "G.progress")
            /\ last_read' = <<"progress", <<rec_fake>>, Stamp>>
            /\ pc' = "D_progress"
    /\ UNCHANGED <<pyrVars, lossVars, penVars, argVars, out_func, scale, epoch, j, optimizer_G,
                   optimizer_D, params, grads, D_loss, G_loss, fake, rec_fake,
                   step_of, ops, steps_done, forwards, entered, epochsRun, real_in,
                   evaluated>>

\* D.progress(), line 172
DProgress ==
    /\ prog = "SinGAN" /\ pc = "D_progress"
    /\ progressed' = [progressed EXCEPT !["D"] = @ + 1]
    /\ boundary' = Append(boundary, "D.progress")
    /\ pc' = "cache"
    /\ UNCHANGED <<pyrVars, lossVars, penVars, argVars, out_func, scale, epoch, j, optimizer_G,
                   optimizer_D, params, grads, D_loss, G_loss, fake, rec_fake,
                   step_of, ops, steps_done, forwards, entered, epochsRun, real_in,
                   last_read, evaluated>>

\* if torch.cuda.is_available(): torch.cuda.empty_cache(), lines 173-174, and
\* the next turn of the scale loop
EmptyCache ==
    /\ prog = "SinGAN" /\ pc = "cache"
    /\ boundary' = IF cuda THEN Append(boundary, "empty_cache") ELSE boundary
    /\ scale' = scale + 1
    /\ pc' = "scale_head"
    /\ UNCHANGED <<pyrVars, lossVars, penVars, argVars, out_func, epoch, j, optimizer_G, optimizer_D,
                   params, grads, progressed, D_loss, G_loss, fake, rec_fake,
                   step_of, ops, steps_done, forwards, entered, epochsRun, real_in,
                   last_read, evaluated>>

\* if test, line 177
Test ==
    /\ prog = "SinGAN" /\ pc = "test"
    /\ pc' = IF test THEN "eval" ELSE "done"
    /\ UNCHANGED <<pyrVars, lossVars, penVars, argVars, out_func, scale, epoch, j, optimizer_G,
                   optimizer_D, params, grads, progressed, D_loss, G_loss, fake,
                   rec_fake, step_of, ops, steps_done, forwards, entered, epochsRun,
                   real_in, boundary, last_read, evaluated>>

\* G.eval(all=True); img = G.forward(sizes=test); save_image, lines 178-180
Eval ==
    /\ prog = "SinGAN" /\ pc = "eval"
    /\ evaluated' = TRUE
    /\ forwards' = forwards + 1
    /\ pc' = "done"
    /\ UNCHANGED <<pyrVars, lossVars, penVars, argVars, out_func, scale, epoch, j, optimizer_G,
                   optimizer_D, params, grads, progressed, D_loss, G_loss, fake,
                   rec_fake, step_of, ops, steps_done, entered, epochsRun, real_in,
                   boundary, last_read>>

SinGANNext ==
    \/ TrainEntry
    \/ ScaleHead
    \/ EpochHead
    \/ DHead
    \/ DForward
    \/ DZeroGrad
    \/ DBackward
    \/ DOptStep
    \/ GHead
    \/ GForward
    \/ GZeroGrad
    \/ GBackward
    \/ GOptStep
    \/ Log
    \/ Save
    \/ Boundary
    \/ GProgress
    \/ DProgress
    \/ EmptyCache
    \/ Test
    \/ Eval


(***************************************************************************)
(* cGAN train, implementations/cGAN/utils.py lines 12-76, called as its   *)
(* main does (lines 99-117): the optimizers exist before the loop.  The   *)
(* dataset stands in reals (one entry per batch), epochses is <<epochs>>, *)
(* epoch counts the epochs begun, j is index, fake is fake_image, D_loss  *)
(* and G_loss are d_loss and g_loss.                                       *)
(***************************************************************************)
\* batches_done = epoch * len(dataset) + index, line 66
BatchesDone == (epoch - 1) * Len(reals) + j

CGanInit ==
    /\ PyramidIdle
    /\ PenaltyIdle
    /\ LossIdle
    /\ prog = "cGAN"
    /\ \E n \in 0 .. MaxBatches : reals = [i \in 1 .. n |-> i]
    /\ \E e \in 0 .. MaxEpochs + 1 : epochses = <<e>>
    /\ G_step = 1 /\ D_step = 1
    /\ gp_type = "none"
    /\ test = FALSE
    /\ save_interval \in 1 .. MaxInterval
    /\ verbose_interval \in 1 .. MaxInterval
    /\ cuda \in BOOLEAN
    /\ pc = "c_epoch_head" /\ out_func = "unset" /\ scale = 0 /\ epoch = 0 /\ j = 0
    /\ optimizer_G = OptimizerGTarget /\ optimizer_D = OptimizerDTarget
    /\ params = [m \in Models |-> 0]
    /\ grads = [m \in Models |-> {}]
    /\ progressed = [m \in Models |-> 0]
    /\ D_loss = "unbound" /\ G_loss = "unbound" /\ fake = "unbound" /\ rec_fake = "unbound"
    /\ step_of = "none" /\ ops = <<>> /\ steps_done = [m \in Models |-> 0]
    /\ forwards = 0 /\ entered = <<>>
    /\ epochsRun = <<>> /\ real_in = 0 /\ boundary = <<>> /\ last_read = <<>>
    /\ evaluated = FALSE

\* for epoch in range(epochs), line 27
CGanEpochHead ==
    /\ prog = "cGAN" /\ pc = "c_epoch_head"
    /\ IF epoch < epochses[1]
       THEN epoch' = epoch + 1 /\ j' = 0 /\ pc' = "c_batch_head"
       ELSE epoch' = epoch /\ j' = j /\ pc' = "done"
    /\ UNCHANGED <<pyrVars, lossVars, penVars, argVars, out_func, scale, optimizer_G, optimizer_D,
                   params, grads, progressed, D_loss, G_loss, fake, rec_fake,
                   step_of, ops, steps_done, forwards, entered, epochsRun, real_in,
                   boundary, last_read, evaluated>>

\* for index, (image, label) in enumerate(dataset, 1), line 28
CGanBatchHead ==
    /\ prog = "cGAN" /\ pc = "c_batch_head"
    /\ IF j < Len(reals)
       THEN /\ j' = j + 1
            /\ steps_done' = [m \in Models |-> 0]
            /\ pc' = "c_D_forward"
       ELSE /\ pc' = "c_epoch_head"
            /\ UNCHANGED <<j, steps_done>>
    /\ UNCHANGED <<pyrVars, lossVars, penVars, argVars, out_func, scale, epoch, optimizer_G,
                   optimizer_D, params, grads, progressed, D_loss, G_loss, fake,
                   rec_fake, step_of, ops, forwards, entered, epochsRun, real_in,
                   boundary, last_read, evaluated>>

\* fake_image = G(noise, label) and the forward computation of d_loss, lines 30-51
CGanDForward ==
    /\ prog = "cGAN" /\ pc = "c_D_forward"
    /\ real_in' = reals[j]
    /\ fake' = <<epoch, j>>
    /\ D_loss' = <<epoch, j>>
    /\ forwards' = forwards + 1
    /\ step_of' = "D"
    /\ ops' = <<"forward">>
    /\ grads' = Aged(grads)
    /\ pc' = "c_D_zero"
    /\ UNCHANGED <<pyrVars, lossVars, penVars, argVars, out_func, scale, epoch, j, optimizer_G,
                   optimizer_D, params, progressed, G_loss, rec_fake, steps_done,
                   entered, epochsRun, boundary, last_read, evaluated>>

\* optimizer_D.zero_grad(), line 54
CGanDZeroGrad ==
    /\ prog = "cGAN" /\ pc = "c_D_zero"
    /\ grads' = ZeroGrad(grads, optimizer_D)
    /\ ops' = Append(ops, "zero_grad")
    /\ pc' = "c_D_backward"
    /\ UNCHANGED <<pyrVars, lossVars, penVars, argVars, out_func, scale, epoch, j, optimizer_G,
                   optimizer_D, params, progressed, D_loss, G_loss, fake, rec_fake,
                   step_of, steps_done, forwards, entered, epochsRun, real_in,
                   boundary, last_read, evaluated>>

\* d_loss.backward(), line 55: its graph reaches D only (fake_image is detached)
CGanDBackward ==
    /\ prog = "cGAN" /\ pc = "c_D_backward"
    /\ grads' = Backward(grads, {"D"})
    /\ ops' = Append(ops, "backward")
    /\ pc' = "c_D_opt"
    /\ UNCHANGED <<pyrVars, lossVars, penVars, argVars, out_func, scale, epoch, j, optimizer_G,
                   optimizer_D, params, progressed, D_loss, G_loss, fake, rec_fake,
                   step_of, steps_done, forwards, entered, epochsRun, real_in,
                   boundary, last_read, evaluated>>

\* optimizer_D.step(), line 56
CGanDOptStep ==
    /\ prog = "cGAN" /\ pc = "c_D_opt"
    /\ params' = OptStep(params, optimizer_D)
    /\ ops' = Append(ops, "step")
    /\ steps_done' = [steps_done EXCEPT !["D"] = @ + 1]
    /\ pc' = "c_G_forward"
    /\ UNCHANGED <<pyrVars, lossVars, penVars, argVars, out_func, scale, epoch, j, optimizer_G,
                   optimizer_D, grads, progressed, D_loss, G_loss, fake, rec_fake,
                   step_of, forwards, entered, epochsRun, real_in, boundary,
                   last_read, evaluated>>

\* g_loss = criterion(D(fake_image, label)...), line 59
CGanGForward ==
    /\ prog = "cGAN" /\ pc = "c_G_forward"
    /\ G_loss' = <<epoch, j>>
    /\ forwards' = forwards + 1
    /\ step_of' = "G"
    /\ ops' = <<"forward">>
    /\ grads' = Aged(grads)
    /\ pc' = "c_G_zero"
    /\ UNCHANGED <<pyrVars, lossVars, penVars, argVars, out_func, scale, epoch, j, optimizer_G,
                   optimizer_D, params, progressed, D_loss, fake, rec_fake,
                   steps_done, entered, epochsRun, real_in, boundary, last_read,
                   evaluated>>

\* optimizer_G.zero_grad(), line 62
CGanGZeroGrad ==
    /\ prog = "cGAN" /\ pc = "c_G_zero"
    /\ grads' = ZeroGrad(grads, optimizer_G)
    /\ ops' = Append(ops, "zero_grad")
    /\ pc' = "c_G_backward"
    /\ UNCHANGED <<pyrVars, lossVars, penVars, argVars, out_func, scale, epoch, j, optimizer_G,
                   optimizer_D, params, progressed, D_loss, G_loss, fake, rec_fake,
                   step_of, steps_done, forwards, entered, epochsRun, real_in,
                   boundary, last_read, evaluated>>

\* g_loss.backward(), line 63: its graph reaches D and, through fake_image, G
CGanGBackward ==
    /\ prog = "cGAN" /\ pc = "c_G_backward"
    /\ grads' = Backward(grads, {"G", "D"})
    /\ ops' = Append(ops, "backward")
    /\ pc' = "c_G_opt"
    /\ UNCHANGED <<pyrVars, lossVars, penVars, argVars, out_func, scale, epoch, j, optimizer_G,
                   optimizer_D, params, progressed, D_loss, G_loss, fake, rec_fake,
                   step_of, steps_done, forwards, entered, epochsRun, real_in,
                   boundary, last_read, evaluated>>

\* optimizer_G.step(), line 64
CGanGOptStep ==
    /\ prog = "cGAN" /\ pc = "c_G_opt"
    /\ params' = OptStep(params, optimizer_G)
    /\ ops' = Append(ops, "step")
    /\ steps_done' = [steps_done EXCEPT !["G"] = @ + 1]
    /\ pc' = "c_log"
    /\ UNCHANGED <<pyrVars, lossVars, penVars, argVars, out_func, scale, epoch, j, optimizer_G,
                   optimizer_D, grads, progressed, D_loss, G_loss, fake, rec_fake,
                   step_of, forwards, entered, epochsRun, real_in, boundary,
                   last_read, evaluated>>

\* the progress log, lines 66-72: d_loss.item() and g_loss.item() are read
CGanLog ==
    /\ prog = "cGAN" /\ pc = "c_log"
    /\ last_read' = IF BatchesDone % verbose_interval = 0
                    THEN <<"log", <<G_loss, D_loss>>, <<epoch, j>>>>
                    ELSE last_read
    /\ pc' = "c_save"
    /\ UNCHANGED <<pyrVars, lossVars, penVars, argVars, out_func, scale, epoch, j, optimizer_G,
                   optimizer_D, params, grads, progressed, D_loss, G_loss, fake,
                   rec_fake, step_of, ops, steps_done, forwards, entered, epochsRun,
                   real_in, boundary, evaluated>>

\* the sample images, lines 74-76: fake_image is read
CGanSave ==
    /\ prog = "cGAN" /\ pc = "c_save"
    /\ last_read' = IF BatchesDone % save_interval = 0
                    THEN <<"save", <<fake>>, <<epoch, j>>>>
                    ELSE last_read
    /\ pc' = "c_batch_head"
    /\ UNCHANGED <<pyrVars, lossVars, penVars, argVars, out_func, scale, epoch, j, optimizer_G,
                   optimizer_D, params, grads, progressed, D_loss, G_loss, fake,
                   rec_fake, step_of, ops, steps_done, forwards, entered, epochsRun,
                   real_in, boundary, evaluated>>

CGanNext ==
    \/ CGanEpochHead
    \/ CGanBatchHead
    \/ CGanDForward
    \/ CGanDZeroGrad
    \/ CGanDBackward
    \/ CGanDOptStep
    \/ CGanGForward
    \/ CGanGZeroGrad
    \/ CGanGBackward
    \/ CGanGOptStep
    \/ CGanLog
    \/ CGanSave

(***************************************************************************)
(* The training loops: one of the two train functions is called.          *)
(***************************************************************************)
Init == TrainInit \/ CGanInit

Next == SinGANNext \/ CGanNext

Spec == Init /\ [][Next]_vars

(***************************************************************************)
(* The adversarial losses, implementations/gan_utils/losses.py lines       *)
(* 14-150, on scalar scores (a batch of one, so that .mean() is the value).*)
(* A score is a half-integer h/2, held as h; a loss is a rational          *)
(* <<numerator, denominator>> with a positive denominator.                 *)
(***************************************************************************)
LossClasses == {"GANLoss", "LSGANLoss", "WGANLoss", "HingeLoss"}

\* x < y for rationals with positive denominators
RatLess(x, y) == x[1] * y[2] < y[1] * x[2]

\* F.softplus(h/2) = log(1 + exp(h/2)), in thousandths, for h in -10..10
SoftplusTable ==
    <<7, 11, 18, 30, 49, 79, 127, 201, 313, 474, 693, 974, 1313, 1701, 2127, 2579, 3049, 3530, 4018, 4511, 5007>>

\* F.softplus of the score h/2
Softplus(h) == <<SoftplusTable[h + 11], 1000>>

\* F.mse_loss(prob, target) of the scalars h/2 and t/2: (h/2 - t/2)^2
MseLoss(h, t) == <<(h - t) * (h - t), 4>>

\* x + y for rationals (over the common denominator when there is one)
RatAdd(x, y) ==
    IF x[2] = y[2] THEN <<x[1] + y[1], x[2]>>
    ELSE <<x[1] * y[2] + y[1] * x[2], x[2] * y[2]>>

\* x / 2 for a rational
RatHalf(x) == <<x[1], 2 * x[2]>>

\* x = y for rationals with positive denominators
RatEq(x, y) == x[1] * y[2] = y[1] * x[2]

\* F.relu(1. + h/2), and F.relu(1. - r/2) as Relu1(-r)
Relu1(h) == <<IF 2 + h > 0 THEN 2 + h ELSE 0, 2>>

\* a plausible slip: the least-squares total is not halved
DLossValueNotHalved(class, r, f) ==
    LET real_loss == CASE class = "GANLoss" -> Softplus(-r)
                       [] class = "LSGANLoss" -> MseLoss(r, 2)
                       [] class = "WGANLoss" -> <<-r, 2>>
                       [] class = "HingeLoss" -> Relu1(-r)
        fake_loss == CASE class = "GANLoss" -> Softplus(f)
                       [] class = "LSGANLoss" -> MseLoss(f, 0)
                       [] class = "WGANLoss" -> <<f, 2>>
                       [] class = "HingeLoss" -> Relu1(f)
    IN  <<RatAdd(real_loss, fake_loss), real_loss, fake_loss>>

\* adv_loss, real_loss and fake_loss of d_loss for real_prob = r/2 and
\* fake_prob = f/2: lines 58-61, 83-86, 108-111, 132-135
DLossValue(class, r, f) ==
    LET real_loss == CASE class = "GANLoss" -> Softplus(-r)
                       [] class = "LSGANLoss" -> MseLoss(r, 2)
                       [] class = "WGANLoss" -> <<-r, 2>>
                       [] class = "HingeLoss" -> Relu1(-r)
        fake_loss == CASE class = "GANLoss" -> Softplus(f)
                       [] class = "LSGANLoss" -> MseLoss(f, 0)
                       [] class = "WGANLoss" -> <<f, 2>>
                       [] class = "HingeLoss" -> Relu1(f)
        adv_loss == IF class = "LSGANLoss"
                    THEN RatHalf(RatAdd(real_loss, fake_loss))
                    ELSE RatAdd(real_loss, fake_loss)
    IN  <<adv_loss, real_loss, fake_loss>>

\* a plausible slip: the sign of the score is lost, F.softplus(fake_prob)
GLossValueSignSlip(class, h) ==
    CASE class = "GANLoss" -> Softplus(h)
      [] class = "LSGANLoss" -> <<MseLoss(h, 2)[1], MseLoss(h, 2)[2] * 2>>
      [] class = "WGANLoss" -> <<h, 2>>
      [] class = "HingeLoss" -> <<h, 2>>

\* the value g_loss returns for fake_prob = h/2: lines 71, 96-97, 121, 145
GLossValue(class, h) ==
    CASE class = "GANLoss" -> Softplus(-h)
      [] class = "LSGANLoss" -> <<MseLoss(h, 2)[1], MseLoss(h, 2)[2] * 2>>
      [] class = "WGANLoss" -> <<-h, 2>>
      [] class = "HingeLoss" -> <<-h, 2>>

\* a loss object of one of the four classes (Loss.__init__, lines 16-25), the
\* scores of two calls of g_loss and of one call of d_loss
LossInit ==
    /\ PyramidIdle
    /\ PenaltyIdle
    /\ TrainIdle
    /\ l_pc = "calling"
    /\ l_class \in LossClasses
    /\ l_backward \in BOOLEAN
    /\ l_return_all \in BOOLEAN
    /\ l_fake \in (-MaxScore2 .. MaxScore2) \X (-MaxScore2 .. MaxScore2)
    /\ l_real \in -MaxScore2 .. MaxScore2
    /\ l_out = <<>>
    /\ l_dout = <<>>
    /\ l_backwards = 0

\* one call g_loss(fake_prob), lines 69-76, 94-102, 119-126, 143-150
GLoss ==
    /\ l_pc = "calling"
    /\ Len(l_out) < Len(l_fake)
    /\ l_out' = Append(l_out, GLossValue(l_class, l_fake[Len(l_out) + 1]))
    /\ l_backwards' = IF l_backward THEN l_backwards + 1 ELSE l_backwards
    /\ UNCHANGED <<pyrVars, argVars, trainVars, penVars, l_pc, l_class, l_backward, l_return_all,
                   l_fake, l_real, l_dout>>

\* one call d_loss(real_prob, fake_prob), lines 56-68, 81-93, 106-118, 130-142,
\* on the scores l_real and l_fake[1]
DLoss ==
    /\ l_pc = "calling"
    /\ l_dout = <<>>
    /\ LET v == DLossValue(l_class, l_real, l_fake[1])
       IN  l_dout' = IF l_return_all THEN v ELSE <<v[1]>>
    /\ l_backwards' = IF l_backward THEN l_backwards + 1 ELSE l_backwards
    /\ UNCHANGED <<pyrVars, argVars, trainVars, penVars, l_pc, l_class, l_backward, l_return_all,
                   l_fake, l_real, l_out>>

LossNext == GLoss \/ DLoss

SpecLoss == LossInit /\ [][LossNext]_vars

(***************************************************************************)
(* The gradient penalties, implementations/gan_utils/losses.py lines       *)
(* 157-249: one GradPenalty object, its methods called one after another   *)
(* as the steps of a training loop do. An exception leaves the call and    *)
(* ends the run.                                                           *)
(***************************************************************************)
\* the centers passed to gradient_penalty, in halves: 0 is 0., 2 is 1.
Centers == -1 .. MaxCenter2

\* center in [1., 0., 1, 0], line 200
ValidCenter(c) == c \in {2, 0}

\* a GradPenalty object, Loss.__init__ lines 16-25
PenaltyInit ==
    /\ PyramidIdle
    /\ TrainIdle
    /\ LossIdle
    /\ p_pc = "ready"
    /\ p_backward \in BOOLEAN
    /\ p_method = "none" /\ center = <<>>
    /\ p_calls = 0 /\ p_forwards = 0 /\ p_grads = 0 /\ p_backwards = 0
    /\ penalty = <<>> /\ p_error = "none"

\* a call gradient_penalty(real, fake, D, center=c), line 185
GradientPenaltyCall ==
    /\ p_pc = "ready" /\ p_calls < MaxCalls
    /\ \E c \in Centers : center' = <<c>>
    /\ p_method' = "gradient_penalty"
    /\ penalty' = <<>>
    /\ p_pc' = "assert"
    /\ UNCHANGED <<pyrVars, argVars, trainVars, lossVars, p_backward, p_calls,
                   p_forwards, p_grads, p_backwards, p_error>>

\* assert center in [1., 0., 1, 0], line 200
GradientPenaltyAssert ==
    /\ p_pc = "assert"
    /\ IF ValidCenter(center[1])
       THEN p_pc' = "forward" /\ p_error' = p_error
       ELSE p_pc' = "raised" /\ p_error' = "AssertionError"
    /\ UNCHANGED <<pyrVars, argVars, trainVars, lossVars, p_backward, p_method, center,
                   p_calls, p_forwards, p_grads, p_backwards, penalty>>

\* x_hat and d_x_hat = D(x_hat), lines 202-208
GradientPenaltyForward ==
    /\ p_pc = "forward"
    /\ p_forwards' = p_forwards + 1
    /\ p_pc' = "calc_grad"
    /\ UNCHANGED <<pyrVars, argVars, trainVars, lossVars, p_backward, p_method, center,
                   p_calls, p_grads, p_backwards, penalty, p_error>>

\* gradients = self._calc_grad(d_x_hat, x_hat, scaler), lines 210 and 241
\* (_calc_grad, lines 158-183)
CalcGrad ==
    /\ p_pc = "calc_grad"
    /\ p_grads' = p_grads + 1
    /\ p_pc' = IF p_method = "gradient_penalty" THEN "penalty" ELSE "dragan_penalty"
    /\ UNCHANGED <<pyrVars, argVars, trainVars, lossVars, p_backward, p_method, center,
                   p_calls, p_forwards, p_backwards, penalty, p_error>>

\* penalty = (gradients.norm(2, dim=1) - center).pow(2).mean(), lines 212-213
GradientPenaltyPenalty ==
    /\ p_pc = "penalty"
    /\ penalty' = center
    /\ p_pc' = "backward"
    /\ UNCHANGED <<pyrVars, argVars, trainVars, lossVars, p_backward, p_method, center,
                   p_calls, p_forwards, p_grads, p_backwards, p_error>>

\* if self.backward: penalty.backward(retain_graph=True), lines 215-216
GradientPenaltyBackward ==
    /\ p_pc = "backward"
    /\ p_backwards' = IF p_backward THEN p_backwards + 1 ELSE p_backwards
    /\ p_pc' = "return"
    /\ UNCHANGED <<pyrVars, argVars, trainVars, lossVars, p_backward, p_method, center,
                   p_calls, p_forwards, p_grads, penalty, p_error>>

\* return penalty, line 218
GradientPenaltyReturn ==
    /\ p_pc = "return"
    /\ p_calls' = p_calls + 1
    /\ center' = <<>>
    /\ p_pc' = "ready"
    /\ UNCHANGED <<pyrVars, argVars, trainVars, lossVars, p_backward, p_method,
                   p_forwards, p_grads, p_backwards, penalty, p_error>>

\* a call dragan_gradient_penalty(real, D), line 220: the method has no
\* parameter center
DraganCall ==
    /\ p_pc = "ready" /\ p_calls < MaxCalls
    /\ p_method' = "dragan_gradient_penalty"
    /\ center' = <<>>
    /\ penalty' = <<>>
    /\ p_pc' = "dragan_forward"
    /\ UNCHANGED <<pyrVars, argVars, trainVars, lossVars, p_backward, p_calls,
                   p_forwards, p_grads, p_backwards, p_error>>

\* the perturbed sample x_hat and d_x_hat = D(x_hat), lines 232-239
DraganForward ==
    /\ p_pc = "dragan_forward"
    /\ p_forwards' = p_forwards + 1
    /\ p_pc' = "calc_grad"
    /\ UNCHANGED <<pyrVars, argVars, trainVars, lossVars, p_backward, p_method, center,
                   p_calls, p_grads, p_backwards, penalty, p_error>>

\* penalty = (gradients.norm(2, dim=1) - center).pow(2).mean(), lines 243-244:
\* center is no parameter and no local of dragan_gradient_penalty and no name
\* of the module (lines 2-8 import torch, nn, F, grad, Variable, autocast,
\* GradScaler, models, TF; the rest are classes and gram_matrix), so the
\* expression raises NameError; lines 246-249 are never reached
DraganPenalty ==
    /\ p_pc = "dragan_penalty"
    /\ center = <<>>
    /\ p_error' = "NameError"
    /\ p_pc' = "raised"
    /\ UNCHANGED <<pyrVars, argVars, trainVars, lossVars, p_backward, p_method, center,
                   p_calls, p_forwards, p_grads, p_backwards, penalty>>

PenaltyNext ==
    \/ GradientPenaltyCall
    \/ GradientPenaltyAssert
    \/ GradientPenaltyForward
    \/ CalcGrad
    \/ GradientPenaltyPenalty
    \/ GradientPenaltyBackward
    \/ GradientPenaltyReturn
    \/ DraganCall
    \/ DraganForward
    \/ DraganPenalty

SpecPenalty == PenaltyInit /\ [][PenaltyNext]_vars

(***************************************************************************)
(* Properties of SinGAN train and cGAN train                               *)
(***************************************************************************)
\* positions of the discriminator loop and of the generator loop of an epoch
DPhase == {"D_head", "D_forward", "D_zero", "D_backward", "D_opt"}

GPhase == {"G_head", "G_forward", "G_zero", "G_backward", "G_opt"}

\* positions inside the body of the scale loop, before the boundary calls
InScale == {"epoch_head", "log", "save", "boundary"} \cup DPhase \cup GPhase

\* the run of the scale loop is over: train has returned, or an exception
\* has left it
RunOver == pc \in {"done", "error"}

\* C1 as the spec states it: for a schedule of S >= 1 scales G.progress and
\* D.progress are each called exactly S-1 times over the whole run, once
\* between scale s and scale s+1, never before the first step of scale 0 and
\* never after the last scale.
C1_SpecProgress ==
    (prog = "SinGAN" /\ Len(epochses) >= 1) =>
        /\ \A m \in Models : progressed[m] <= Len(epochses) - 1
        /\ pc \in InScale => \A m \in Models : progressed[m] = scale
        /\ pc \in {"test", "eval"} => \A m \in Models : progressed[m] = Len(epochses) - 1
        /\ RunOver => \A m \in Models : progressed[m] = Len(epochses) - 1

\* C2 as the spec states it: the scales are entered in the order 0, 1, ...,
\* S-1, each exactly once; scale s runs exactly epochses[s] epochs on
\* reals[s], the s-th smallest resolution, before scale s+1 starts; the
\* evaluation runs only after scale S-1 has finished and only with a test
\* target.
C2_SpecScales ==
    prog = "SinGAN" =>
        /\ entered = [i \in 1 .. Len(entered) |-> i - 1]
        /\ Len(epochsRun) = Len(entered)
        /\ \A i \in 1 .. Len(epochsRun) :
              /\ epochsRun[i] <= epochses[i]
              /\ i < Len(epochsRun) => epochsRun[i] = epochses[i]
        /\ NonDecreasing(reals)
        /\ pc \in (DPhase \cup GPhase) \ {"D_head", "D_forward", "G_head", "G_forward"} =>
              real_in = reals[scale + 1]
        /\ (pc = "eval" \/ evaluated) => (test /\ epochsRun = epochses)
        /\ RunOver => (Len(entered) = Len(epochses) /\ epochsRun = epochses)

\* C3: in every epoch of SinGAN train exactly D_step discriminator steps are
\* made and all of them precede the exactly G_step generator steps of the
\* epoch; each step runs forward, zero_grad, backward, step in this order, and
\* a step begins only when the one before it is complete.
C3_StepOrder ==
    prog = "SinGAN" =>
        /\ steps_done["D"] <= D_step
        /\ steps_done["G"] <= G_step
        /\ (pc \in GPhase \cup {"log", "save"} \/ steps_done["G"] > 0) =>
              steps_done["D"] = D_step
        /\ pc \in {"log", "save"} => steps_done["G"] = G_step
        /\ Len(ops) <= Len(StepOps) /\ ops = SubSeq(StepOps, 1, Len(ops))
        /\ pc \in {"D_forward", "G_forward"} => ops \in {<<>>, StepOps}
        /\ pc \in {"D_zero", "G_zero"} => Len(ops) = 1
        /\ pc \in {"D_backward", "G_backward"} => Len(ops) = 2
        /\ pc \in {"D_opt", "G_opt"} => Len(ops) = 3
        /\ pc \in {"D_zero", "D_backward", "D_opt"} => step_of = "D"
        /\ pc \in {"G_zero", "G_backward", "G_opt"} => step_of = "G"

\* an epoch with two discriminator steps and two generator steps is complete
C3_Witness ==
    /\ prog = "SinGAN" /\ pc = "log"
    /\ D_step = 2 /\ G_step = 2
    /\ steps_done = [m \in Models |-> 2]
    /\ ops = StepOps

\* C4: in both training loops a discriminator step (optimizer_D.step())
\* changes the discriminator's parameters and not the generator's, a
\* generator step (optimizer_G.step()) changes the generator's parameters and
\* not the discriminator's, and no other action of the loops writes the
\* parameters of either model.
C4_ParameterFrame ==
    [][ /\ params'["D"] # params["D"] =>
              (pc \in {"D_opt", "c_D_opt"} /\ params'["G"] = params["G"])
        /\ params'["G"] # params["G"] =>
              (pc \in {"G_opt", "c_G_opt"} /\ params'["D"] = params["D"])
        /\ pc \in {"D_opt", "c_D_opt"} => params'["D"] # params["D"]
        /\ pc \in {"G_opt", "c_G_opt"} => params'["G"] # params["G"]
      ]_vars

\* a generator step has just completed and both models have been updated
C4_Witness ==
    /\ pc \in {"G_head", "c_log"}
    /\ params["D"] >= 1 /\ params["G"] >= 1
    /\ step_of = "G" /\ ops = StepOps

\* C5: an unknown gp_type is raised by train before anything else happens: no
\* forward pass, no optimizer, no parameter update, no progress(), no scale
\* entered; and the error is raised for an unknown gp_type only, so never
\* once the scale loop has started.
C5_UnknownGpType ==
    prog = "SinGAN" =>
        /\ gp_type \notin {"one", "zero"} =>
              /\ pc \in {"entry", "raised"}
              /\ forwards = 0
              /\ optimizer_G = "none" /\ optimizer_D = "none"
              /\ \A m \in Models : params[m] = 0 /\ progressed[m] = 0 /\ grads[m] = {}
              /\ entered = <<>>
        /\ pc = "raised" => gp_type \notin {"one", "zero"}
        /\ gp_type \in {"one", "zero"} => pc # "raised"

C5_Witness == prog = "SinGAN" /\ pc = "raised" /\ gp_type = "other" /\ Len(epochses) >= 2

\* C13 as the spec states it: at every scale boundary, on a machine with an
\* accelerator, torch.cuda.empty_cache() is called before G.progress() and
\* D.progress() of that boundary.
C13_SpecCacheFirst ==
    (prog = "SinGAN" /\ cuda) =>
        \A i \in 1 .. Len(boundary) :
            boundary[i] \in {"G.progress", "D.progress"} =>
                \E k \in 1 .. i - 1 : boundary[k] = "empty_cache"

\* C14: in both training loops, whenever optimizer_X.step() runs, the
\* gradient buffers of model X hold the gradient of the loss of the current
\* step and nothing older: what a backward pass of the other model's loss
\* left in them has been cleared by X's zero_grad() before X's own backward,
\* which X's step follows at once.
C14_FreshGradients ==
    /\ pc \in {"D_backward", "c_D_backward"} => grads["D"] = {}
    /\ pc \in {"G_backward", "c_G_backward"} => grads["G"] = {}
    /\ pc \in {"D_opt", "c_D_opt"} => grads["D"] = {"cur"}
    /\ pc \in {"G_opt", "c_G_opt"} => grads["G"] = {"cur"}

\* optimizer_D.step() is about to run after a generator step whose backward
\* pass went through D, and D's backward (penalty 'one') has gone through G,
\* whose buffers still hold the gradient of its own earlier step
C14_Witness ==
    /\ prog = "SinGAN" /\ gp_type = "one"
    /\ pc = "D_opt"
    /\ params["G"] >= 1
    /\ grads["D"] = {"cur"}
    /\ grads["G"] = {"old", "cur"}

\* the local v holds a value assigned in the current epoch of the current scale
AssignedNow(v) == v # "unbound" /\ v = Stamp

\* C15 as the spec states it: for all D_step >= 0, G_step >= 0 and epoch
\* counts >= 0, G_loss and D_loss at a logging epoch, fake at a save epoch and
\* rec_fake at a scale boundary have been assigned during the current epoch
\* of the current scale: no log, save or progress step is reached with one of
\* them unassigned or left over, and none ends in an error.
C15_SpecAssigned ==
    prog = "SinGAN" =>
        /\ (pc = "log" /\ epoch % verbose_interval = 0) =>
              AssignedNow(G_loss) /\ AssignedNow(D_loss)
        /\ (pc = "save" /\ epoch % save_interval = 0) => AssignedNow(fake)
        /\ pc = "G_progress" => AssignedNow(rec_fake)
        /\ pc # "error"

(***************************************************************************)
(* Properties of load_real's size computation                              *)
(***************************************************************************)
\* line 23 has run: sizes is the list load_real goes on with
Sized == lr_pc \in {"sized", "transform", "returned"}

\* the documented scenario max_size=100, min_size=25, scale_factor=0.75
Scenario == max_size = 100 /\ min_size = 25 /\ scale_factor = <<3, 4>>

\* C6 as the spec states it: the scenario max_size=100, min_size=25,
\* scale_factor=0.75 yields the scales [26, 34, 45, 60, 75, 100].
C6_SpecScenario ==
    (Scenario /\ Sized) => sizes = <<26, 34, 45, 60, 75, 100>>

\* C6 (amended): in the scenario max_size=100, min_size=25, scale_factor=0.75 the
\* size computation yields [24, 32, 42, 56, 75, 100], ascending, each value
\* being round(max_size * scale_factor ** k) for k = 5, 4, 3, 2, 1, 0.
C6_Scenario ==
    (Scenario /\ Sized) =>
        /\ sizes = <<24, 32, 42, 56, 75, 100>>
        /\ \A i \in 1 .. Len(sizes) :
              sizes[i] = ScaledSize(max_size, scale_factor, Len(sizes) - i)

C6_Witness == Scenario /\ lr_pc = "returned" /\ Len(lr_reals) = 6

\* what C7 says of the list the size loop returns: non-empty, ascending, its
\* maximum <= max_size, and exactly one entry, the smallest, is <= min_size
PyramidShape ==
    /\ Len(sizes) >= 1
    /\ NonDecreasing(sizes)
    /\ \A i \in 1 .. Len(sizes) : sizes[i] <= max_size
    /\ sizes[1] <= min_size
    /\ \A i \in 2 .. Len(sizes) : sizes[i] > min_size

\* C7 as the spec states it: for all (max_size, min_size, scale_factor) with
\* 0 < scale_factor < 1 and min_size < max_size the size loop terminates and
\* returns a list of that shape.
C7_SpecPyramid ==
    (InUnitInterval(scale_factor) /\ min_size < max_size) =>
        /\ lr_pc # "diverged"
        /\ Sized => PyramidShape

\* C7 (amended): for all (max_size, min_size, scale_factor) with
\* 0 < scale_factor < 1 and 0 <= min_size < max_size the size loop terminates
\* and returns a non-empty ascending list whose maximum is <= max_size and in
\* which exactly one entry, the smallest, is <= min_size.  (With min_size < 0
\* the rounded sizes reach 0 and stay there, above min_size: the loop never
\* ends.)
C7_Pyramid ==
    (InUnitInterval(scale_factor) /\ 0 <= min_size /\ min_size < max_size) =>
        /\ lr_pc # "diverged"
        /\ Sized => PyramidShape

C7_Witness ==
    /\ InUnitInterval(scale_factor) /\ 0 <= min_size /\ min_size < max_size
    /\ lr_pc = "returned"
    /\ Len(sizes) >= 4

\* C8 as the spec states it: whenever the size computation returns, the list
\* has length >= 1, every entry is > 0, and the entries are strictly
\* increasing.  Stated here on the configurations the spec calls valid
\* (0 < scale_factor < 1, 0 <= min_size < max_size), where it fails already.
C8_SpecSchedule ==
    (Sized /\ InUnitInterval(scale_factor) /\ 0 <= min_size /\ min_size < max_size) =>
        /\ Len(sizes) >= 1
        /\ \A i \in 1 .. Len(sizes) : sizes[i] > 0
        /\ StrictlyIncreasing(sizes)

\* C8 (amended): whenever the size computation returns, the list is
\* non-decreasing (two scales can share a size); with min_size < max_size it
\* has length >= 2, its first entry is <= min_size (it can be 0 or negative)
\* and every other entry is > min_size; with max_size <= min_size it is empty.
C8_Schedule ==
    Sized =>
        /\ NonDecreasing(sizes)
        /\ min_size < max_size =>
              /\ Len(sizes) >= 2
              /\ sizes[1] <= min_size
              /\ \A i \in 2 .. Len(sizes) : sizes[i] > min_size
        /\ max_size <= min_size => sizes = <<>>

\* a returned list in which two scales share a size and the smallest is 0
C8_Witness ==
    /\ lr_pc = "returned"
    /\ \E i \in 1 .. Len(sizes) - 1 : sizes[i] = sizes[i + 1] /\ sizes[i] > 0
    /\ sizes[1] = 0

\* C9 as the spec states it: for scale_factor outside (0,1) the builder raises
\* before any image processing; it neither opens the image, nor returns a
\* schedule, nor runs its loop without end.  (load_real has no such check: a
\* position "raised" does not exist.)  Stated here for min_size < max_size,
\* the configurations on which the loop is entered.
C9_SpecRejected ==
    (~InUnitInterval(scale_factor) /\ min_size < max_size) =>
        /\ image = "unopened"
        /\ ~Sized
        /\ lr_pc # "diverged"

(***************************************************************************)
(* Properties of the adversarial losses                                    *)
(***************************************************************************)
\* g_loss has been called on both scores, the first below the second
TwoCalls == Len(l_out) = 2 /\ l_fake[1] < l_fake[2]

\* C10 as the spec states it: for each of the four loss classes g_loss is a
\* strictly decreasing function of fake_score: for scores a < b,
\* g_loss(a) > g_loss(b).
C10_SpecDecreasing ==
    TwoCalls => RatLess(l_out[2], l_out[1])

\* C10 (amended): g_loss is a strictly decreasing function of fake_score for
\* GANLoss, WGANLoss and HingeLoss; for LSGANLoss, g_loss(f) = (f-1)^2/2 is
\* strictly decreasing on scores <= 1 and strictly increasing on scores >= 1.
C10_Decreasing ==
    TwoCalls =>
        /\ l_class # "LSGANLoss" => RatLess(l_out[2], l_out[1])
        /\ (l_class = "LSGANLoss" /\ l_fake[2] <= 2) => RatLess(l_out[2], l_out[1])
        /\ (l_class = "LSGANLoss" /\ l_fake[1] >= 2) => RatLess(l_out[1], l_out[2])

\* the minimax loss has been called on two scores on both sides of 0
C10_Witness ==
    /\ TwoCalls
    /\ l_class = "GANLoss"
    /\ l_fake[1] < 0 /\ l_fake[2] > 2
    /\ l_backwards = 2

C12_SpecEager ==
    p_error = "AssertionError" =>
        /\ p_forwards = 0 /\ p_grads = 0 /\ p_backwards = 0
        /\ p_calls = 0

\* C16 as the spec states it: dragan_gradient_penalty(real, D) completes: it
\* evaluates D on the perturbed sample, returns a penalty of the form of
\* gradient_penalty (the mean squared deviation of the gradient norm from a
\* center), calls backward on it exactly when the backward flag is set, and
\* never ends in an error.
C16_SpecCompletes ==
    p_method = "dragan_gradient_penalty" =>
        /\ p_error = "none"
        /\ p_pc # "raised"
        /\ p_pc = "ready" =>
              /\ penalty # <<>>
              /\ p_forwards >= 1
              /\ p_backward => p_backwards >= 1
              /\ ~p_backward => p_backwards = 0

=============================================================================
